---- MODULE Spec2Model ----
(***************************************************************************)
(* Audealize parametric reverberator (effects/Reverb.h): the parameter     *)
(* mapping of class Reverb, its delay-line network and its block           *)
(* processing.                                                             *)
(*                                                                         *)
(* Number representation.  The C++ members are 32-bit floats; here         *)
(*   - times given in seconds (d, m, da, MINDELAY, rt) are integers in     *)
(*     milliseconds,                                                       *)
(*   - gains, mix values and g, E, wetdry are integers in thousandths,     *)
(*   - samples are integers, a product with a gain is divided by 1000 and  *)
(*     truncated toward zero,                                              *)
(*   - a delay stored in seconds as prime / mSampleRate (mCombDelay,       *)
(*     mDelayVal) is the exact fraction <<prime, rate>>, and the later     *)
(*     product with mSampleRate, converted to an integer, is               *)
(*     (prime * mSampleRate) \div rate.  The rounding of the float         *)
(*     division and multiplication is not modelled.                        *)
(***************************************************************************)
EXTENDS Integers, Sequences, FiniteSets, TLC

(***************************************************************************)
(* Fixed-point arithmetic standing for float arithmetic.                   *)
(***************************************************************************)
\* a / b truncated toward zero (b > 0)
TDiv(a, b) == IF a >= 0 THEN a \div b ELSE -((-a) \div b)

\* sample * gain, gain in thousandths
MulQ(a, k) == TDiv(a * k, 1000)

\* cos (r * PI), r in thousandths, |r| <= 500; result in thousandths
\* (the rational approximation (1 - 4 r^2) / (1 + r^2) of the cosine)
CosPi(r) == ((1000000 - 4 * r * r) * 1000) \div (1000000 + r * r)

\* log (x), x in thousandths, 0 < x < 1; result in thousandths
RECURSIVE LogQ(_)
LogQ(x) ==
    IF x < 500 THEN LogQ(2 * x) - 693
    ELSE LET z  == TDiv((x - 1000) * 1000, x + 1000)
             z3 == TDiv(z * z * z, 1000000)
             z5 == TDiv(z3 * z * z, 1000000)
         IN  2 * z + TDiv(2 * z3, 3) + TDiv(2 * z5, 5)

\* exp (-y), y >= 0 in thousandths; result in thousandths
RECURSIVE ExpNeg(_)
ExpNeg(y) ==
    IF y > 250 THEN LET h == ExpNeg(y \div 2) IN (h * h) \div 1000
    ELSE 1000 - y + (y * y) \div 2000 - (y * y * y) \div 6000000

\* log (.001) in thousandths
LOG001 == -6908

\* powf (.001, x), x >= 0 in thousandths
Pow001(x) == ExpNeg(TDiv((-LOG001) * x, 1000))

(***************************************************************************)
(* prevPrime: the greatest prime not exceeding n (n >= 2).                 *)
(***************************************************************************)
\* the integer square root of n (Newton's iteration from x)
RECURSIVE IsqrtFrom(_, _)
IsqrtFrom(n, x) ==
    LET y == (x + n \div x) \div 2
    IN  IF y >= x THEN x ELSE IsqrtFrom(n, y)

Isqrt(n) == IF n = 0 THEN 0 ELSE IsqrtFrom(n, n)

isPrime(n) == n >= 2 /\ \A k \in 2 .. Isqrt(n) : n % k # 0

RECURSIVE prevPrime(_)
prevPrime(n) == IF isPrime(n) THEN n ELSE prevPrime(n - 1)

(***************************************************************************)
(* DelayLine: simple_delay<9600, float>.  A ring of Capacity cells and a   *)
(* write cursor.  Only the non-zero cells are kept in data; a cell outside *)
(* DOMAIN data holds zero.                                                 *)
(***************************************************************************)
Capacity == 9600

NewDelay == [data |-> <<>>, pos |-> 0]

Cell(dl, i) == IF i \in DOMAIN dl.data THEN dl.data[i] ELSE 0

\* reset (): zero the buffer and rewind the cursor
reset(dl) == NewDelay

IsZeroed(dl) == dl = NewDelay

\* write (sample): store at the cursor and advance it modulo the capacity
put(dl, v) ==
    [data |-> IF v = 0
              THEN [i \in DOMAIN dl.data \ {dl.pos} |-> dl.data[i]]
              ELSE [i \in DOMAIN dl.data \cup {dl.pos} |->
                        IF i = dl.pos THEN v ELSE dl.data[i]],
     pos  |-> (dl.pos + 1) % Capacity]

\* the sample written `delay` steps ago.  A length beyond the capacity is
\* a contract violation with undefined result: the read yields `junk`,
\* which the caller draws from every value the read could produce.
get(dl, delay, junk) ==
    IF delay >= 0 /\ delay <= Capacity
    THEN Cell(dl, (dl.pos + Capacity - delay) % Capacity)
    ELSE junk

\* plain delay: read the delayed sample, write the input
process(dl, in, delay, junk) ==
    [dl |-> put(dl, in), out |-> get(dl, delay, junk)]

\* feedback comb: output = input + gain * delayed, written and returned
process_comb(dl, in, delay, fb, junk) ==
    LET old == get(dl, delay, junk)
        cur == in + MulQ(old, fb)
    IN  [dl |-> put(dl, cur), out |-> cur]

\* allpass: output = -gain * input + delayed + gain * written value
process_allpass_comb(dl, in, delay, fb, junk) ==
    LET old == get(dl, delay, junk)
        cur == in + MulQ(old, fb)
    IN  [dl |-> put(dl, cur), out |-> old - MulQ(in, fb) + MulQ(cur, fb)]

(***************************************************************************)
(* DampingFilter: NChannelFilter, a low-pass per channel with a shared     *)
(* cutoff and sample rate and one history value per channel.               *)
(***************************************************************************)
NewFilter(freq, rate) == [freq |-> freq, rate |-> rate, hist |-> [c \in 0..1 |-> 0]]

FilterSetSampleRate(lp, rate) == [lp EXCEPT !.rate = rate]

FilterSetFreq(lp, freq) == [lp EXCEPT !.freq = freq]

\* smoothing coefficient in thousandths from cutoff and sample rate
FilterCoeff(lp) ==
    LET w == 6283 * lp.freq
    IN  (w * 1000) \div (1000 * lp.rate + w)

\* processSample (sample, channel)
processSample(lp, in, ch) ==
    LET y == lp.hist[ch] + MulQ(in - lp.hist[ch], FilterCoeff(lp))
    IN  [lp |-> [lp EXCEPT !.hist[ch] = y], out |-> y]

(***************************************************************************)
(* Reverb: constants, construction and the parameter setters.  An engine   *)
(* is a record r whose fields are the members of class Reverb.             *)
(***************************************************************************)
\* ALLPASSGAIN 0.1f, in thousandths
ALLPASSGAIN == 100

\* MINDELAY 0.01f, in milliseconds
MINDELAY == 10

\* the comb filters are mComb[0..5], the channels 0..1
COMBS == 0 .. 5

CHANS == 0 .. 1

\* a time in milliseconds times the sample rate, converted to an integer
ToSamples(ms, rate) == TDiv(ms * rate, 1000)

\* a delay kept in seconds (<<samples, rate>>) times the sample rate,
\* converted to an integer
DelaySamples(sec, rate) == TDiv(sec[1] * rate, sec[2])

\* Reverb (): the delay lines are zeroed, da is set.  The parameters and
\* the values derived from them are not initialised by the constructor;
\* init () writes each of them before reading it, except g, which its
\* first set_d reads: gv is the indeterminate value g holds.
Reverb(gv) ==
    [d |-> 0, g |-> gv, m |-> 0, f |-> 0, E |-> 0, wetdry |-> 0,
     rt |-> 0, gainclean |-> 0, gainscale |-> 0, gain |-> 0,
     wet |-> 0, dry |-> 0,
     da |-> 6 + MINDELAY,
     mSampleRate |-> 0,
     mCombDelay |-> [i \in COMBS |-> <<0, 1>>],
     mCombGain  |-> [i \in COMBS |-> 0],
     mDelayVal  |-> [c \in CHANS |-> <<0, 1>>],
     mComb    |-> [i \in COMBS |-> NewDelay],
     mAllpass |-> [c \in CHANS |-> NewDelay],
     mDelay   |-> [c \in CHANS |-> NewDelay],
     mLowpass |-> NewFilter(0, 0)]

\* rt = d * log (.001) / log (g)
calc_rt(r) == [r EXCEPT !.rt = TDiv(r.d * LOG001, LogQ(r.g))]

\* the comb lengths with the factor (15 + i) in place of (15 - i)
CombPrime_growing(dv, i, rate) == prevPrime(TDiv(dv * (15 + i) * rate, 15 * 1000))

\* prevPrime (d * (15 - i) / 15.0f * mSampleRate)
CombPrime(dv, i, rate) == prevPrime(TDiv(dv * (15 - i) * rate, 15 * 1000))

\* powf (.001, mCombDelay[i] / rt)
CombGainOf(sec, rtv) == Pow001(TDiv(TDiv(sec[1] * 1000, sec[2]) * 1000, rtv))

\* the two assignments of the body of set_d's loop, for comb i
set_d_delay(r, i) ==
    [r EXCEPT !.mCombDelay[i] = <<CombPrime(r.d, i, r.mSampleRate), r.mSampleRate>>]

set_d_gain(r, i) ==
    [r EXCEPT !.mCombGain[i] = CombGainOf(r.mCombDelay[i], r.rt)]

\* the loop of set_d from comb i on
RECURSIVE set_d_loop(_, _)
set_d_loop(r, i) ==
    IF i \notin COMBS THEN r
    ELSE set_d_loop(set_d_gain(set_d_delay(r, i), i), i + 1)

set_d(r, d_val) == set_d_loop(calc_rt([r EXCEPT !.d = d_val]), 0)

get_d(r) == r.d

\* set_g that stores g without re-deriving rt and the comb values
set_g_stale(r, g_val) == [r EXCEPT !.g = g_val]

set_g(r, g_val) == set_d([r EXCEPT !.g = g_val], get_d(r))

\* prevPrime ((da +- m / 2) * mSampleRate) / mSampleRate
SpreadPrime(dav, mv, sign, rate) ==
    prevPrime(TDiv((2 * dav + sign * mv) * rate, 2 * 1000))

\* set_m that gives both channels the delay da + m / 2
set_m_same(r, m_val) ==
    LET r1 == [r EXCEPT !.m = m_val]
    IN  [r1 EXCEPT !.mDelayVal =
            [c \in CHANS |-> <<SpreadPrime(r1.da, r1.m, 1, r1.mSampleRate),
                               r1.mSampleRate>>]]

set_m(r, m_val) ==
    LET r1 == [r EXCEPT !.m = m_val]
    IN  [r1 EXCEPT !.mDelayVal =
            [c \in CHANS |->
                <<SpreadPrime(r1.da, r1.m, IF c = 0 THEN 1 ELSE -1, r1.mSampleRate),
                  r1.mSampleRate>>]]

\* set_f that builds a new filter, losing the filter history
set_f_rebuild(r, f_val) ==
    [r EXCEPT !.f = f_val, !.mLowpass = NewFilter(f_val, r.mSampleRate)]

set_f(r, f_val) ==
    [r EXCEPT !.f = f_val, !.mLowpass = FilterSetFreq(r.mLowpass, f_val)]

\* the three gains set_E derives from E
GainsOf(Ev) ==
    LET totalGain == Ev + 1000
        g1 == TDiv(1000 * 1000, totalGain)
        gc == CosPi(TDiv((1000 - g1) * 125, 1000))
        gn == CosPi(TDiv(g1 * 375, 1000))
    IN  [gainclean |-> gc, gain |-> gn, gainscale |-> TDiv(400 * 1000, gc + gn)]

set_E(r, E_val) ==
    LET k == GainsOf(E_val)
    IN  [r EXCEPT !.E = E_val, !.gainclean = k.gainclean, !.gain = k.gain,
                  !.gainscale = k.gainscale]

\* wet = cos ((1 - wetdry) * .5 * PI), dry = cos (wetdry * .5 * PI)
WetOf(w) == CosPi(TDiv(1000 - w, 2))

DryOf(w) == CosPi(TDiv(w, 2))

set_wetdry(r, wetdry_val) ==
    [r EXCEPT !.wetdry = wetdry_val, !.wet = WetOf(wetdry_val),
              !.dry = DryOf(wetdry_val)]

\* resetBuffs (): each loop `for (auto d : ...) d.reset ()` binds d to a
\* copy of the element, so the copies are reset and the engine's own
\* delay lines keep their contents and cursors.
resetBuffs(r) ==
    LET copyAllpass == [c \in CHANS |-> reset(r.mAllpass[c])]
        copyComb    == [i \in COMBS |-> reset(r.mComb[i])]
        copyDelay   == [c \in CHANS |-> reset(r.mDelay[c])]
    IN  r

init(r, d_val, g_val, m_val, f_val, E_val, wetdry_val, sampleRate) ==
    LET r0 == [r EXCEPT !.mSampleRate = sampleRate,
                        !.mLowpass = FilterSetSampleRate(r.mLowpass, sampleRate)]
        r1 == set_d(r0, d_val)
        r2 == set_g(r1, g_val)
        r3 == set_m(r2, m_val)
        r4 == set_f(r3, f_val)
        r5 == set_E(r4, E_val)
        r6 == set_wetdry(r5, wetdry_val)
    IN  resetBuffs(r6)

setSampleRate(r, sampleRate) ==
    LET r0 == [r EXCEPT !.mSampleRate = sampleRate,
                        !.mLowpass = FilterSetSampleRate(r.mLowpass, sampleRate)]
        r1 == set_m(r0, r0.m)
        r2 == set_d(r1, r1.d)
    IN  resetBuffs(r2)

(***************************************************************************)
(* Block processing.  `junk` is what a read beyond a delay line's capacity *)
(* yields during the call.  Besides the engine and the samples written     *)
(* back, each operator returns `handed`: the <<delay line, index, length>> *)
(* of every call it made on a delay line.                                  *)
(***************************************************************************)
\* the delay lengths, in samples, handed to the delay lines
CombLen(r, i) == DelaySamples(r.mCombDelay[i], r.mSampleRate)

SpreadLen(r, c) == DelaySamples(r.mDelayVal[c], r.mSampleRate)

MinLen(r) == ToSamples(MINDELAY, r.mSampleRate)

\* The element of a one-element set.  Only({F(x) : x \in {e}}) is F of the
\* value of e, computed once: the value a statement assigns to a local
\* variable, used by the statements after it.
Only(S) == CHOOSE x \in S : TRUE

\* the loop body with comb i fed the running sum as well (combs in series)
CombStep_serial(acc, sample, i, junk) ==
    LET len == CombLen(acc.r, i)
        c   == process_comb(acc.r.mComb[i], sample + acc.out, len,
                            acc.r.mCombGain[i], junk)
    IN  [r |-> [acc.r EXCEPT !.mComb[i] = c.dl], out |-> acc.out + c.out,
         handed |-> acc.handed \cup {<<"mComb", i, len>>}]

\* one iteration of the loop of processCombs: comb i is fed `sample`, its
\* output added to acc.out
CombStep(acc, sample, i, junk) ==
    LET len == CombLen(acc.r, i)
        c   == process_comb(acc.r.mComb[i], sample, len, acc.r.mCombGain[i], junk)
    IN  [r |-> [acc.r EXCEPT !.mComb[i] = c.dl], out |-> acc.out + c.out,
         handed |-> acc.handed \cup {<<"mComb", i, len>>}]

\* processCombs: combs i .. 5 in turn
RECURSIVE CombsFrom(_, _, _, _)
CombsFrom(acc, sample, i, junk) ==
    IF i \notin COMBS THEN acc
    ELSE Only({CombsFrom(a, sample, i + 1, junk) : a \in {CombStep(acc, sample, i, junk)}})

processCombs(r, sample, junk) ==
    CombsFrom([r |-> r, out |-> 0, handed |-> {}], sample, 0, junk)

\* JUCE_UNDENORMALISE flushes a denormal float to zero; no integer sample
\* is denormal.
Undenormalise(x) == x

\* the loop body with the dry path sent through plain delay 1
MonoTail_delay1(r, cb, sampDry, junk) ==
    LET apLen == SpreadLen(r, 0)
        ap   == process_allpass_comb(cb.r.mAllpass[0], cb.out, apLen, ALLPASSGAIN, junk)
        lp   == processSample(cb.r.mLowpass, ap.out, 0)
        sampRev == MulQ(lp.out, r.gain)
        dlLen == MinLen(r)
        dl   == process(cb.r.mDelay[1], sampDry, dlLen, junk)
        samp == MulQ(TDiv(MulQ(MulQ(dl.out, r.wet), r.gainclean) + sampRev, 2),
                     r.gainscale)
        sampOut == samp + MulQ(sampDry, r.dry)
    IN  [r   |-> [cb.r EXCEPT !.mAllpass[0] = ap.dl, !.mLowpass = lp.lp,
                               !.mDelay[1] = dl.dl],
         out |-> Undenormalise(sampOut),
         handed |-> cb.handed \cup {<<"mAllpass", 0, apLen>>, <<"mDelay", 1, dlLen>>}]

\* an iteration of the loop of processMonoBlock after its call of
\* processCombs, which returned cb
MonoTail(r, cb, sampDry, junk) ==
    LET apLen == SpreadLen(r, 0)
        ap   == process_allpass_comb(cb.r.mAllpass[0], cb.out, apLen, ALLPASSGAIN, junk)
        lp   == processSample(cb.r.mLowpass, ap.out, 0)
        sampRev == MulQ(lp.out, r.gain)
        dlLen == MinLen(r)
        dl   == process(cb.r.mDelay[0], sampDry, dlLen, junk)
        samp == MulQ(TDiv(MulQ(MulQ(dl.out, r.wet), r.gainclean) + sampRev, 2),
                     r.gainscale)
        sampOut == samp + MulQ(sampDry, r.dry)
    IN  [r   |-> [cb.r EXCEPT !.mAllpass[0] = ap.dl, !.mLowpass = lp.lp,
                               !.mDelay[0] = dl.dl],
         out |-> Undenormalise(sampOut),
         handed |-> cb.handed \cup {<<"mAllpass", 0, apLen>>, <<"mDelay", 0, dlLen>>}]

\* one iteration of the loop of processMonoBlock on sample sampDry
MonoSample(r, sampDry, junk) ==
    Only({MonoTail(r, cb, sampDry, junk) :
              cb \in {processCombs(r, MulQ(sampDry, r.wet), junk)}})

\* the iteration on sample sampDry, after the iterations that gave acc
MonoStep(acc, sampDry, junk) ==
    Only({[r |-> s.r, out |-> Append(acc.out, s.out),
           handed |-> acc.handed \cup s.handed] :
              s \in {MonoSample(acc.r, sampDry, junk)}})

RECURSIVE MonoFrom(_, _, _)
MonoFrom(acc, channelData, junk) ==
    IF channelData = <<>> THEN acc
    ELSE Only({MonoFrom(a, Tail(channelData), junk) :
                   a \in {MonoStep(acc, Head(channelData), junk)}})

\* processMonoBlock (channelData, blockSize): channelData is the sequence
\* of blockSize samples, rewritten in place
processMonoBlock(r, channelData, junk) ==
    MonoFrom([r |-> r, out |-> <<>>, handed |-> {}], channelData, junk)

\* the channel path with channel 0's spread delay used for both channels
StereoChannel_len0(r, lp0, c, sampRevIn, sampDry, junk) ==
    LET apLen == SpreadLen(r, 0)
        ap   == process_allpass_comb(r.mAllpass[c], sampRevIn, apLen, ALLPASSGAIN, junk)
        lp   == processSample(lp0, ap.out, c)
        sampRev == MulQ(lp.out, r.gain)
        dlLen == MinLen(r)
        dl   == process(r.mDelay[c], sampDry, dlLen, junk)
        samp == MulQ(TDiv(MulQ(MulQ(dl.out, r.wet), r.gainclean) + sampRev, 2),
                     r.gainscale)
    IN  [ap |-> ap.dl, lp |-> lp.lp, dl |-> dl.dl,
         out |-> Undenormalise(MulQ(sampDry, r.dry) + samp),
         handed |-> {<<"mAllpass", c, apLen>>, <<"mDelay", c, dlLen>>}]

\* one channel's path after the comb network in processStereoBlock
StereoChannel(r, lp0, c, sampRevIn, sampDry, junk) ==
    LET apLen == SpreadLen(r, c)
        ap   == process_allpass_comb(r.mAllpass[c], sampRevIn, apLen, ALLPASSGAIN, junk)
        lp   == processSample(lp0, ap.out, c)
        sampRev == MulQ(lp.out, r.gain)
        dlLen == MinLen(r)
        dl   == process(r.mDelay[c], sampDry, dlLen, junk)
        samp == MulQ(TDiv(MulQ(MulQ(dl.out, r.wet), r.gainclean) + sampRev, 2),
                     r.gainscale)
    IN  [ap |-> ap.dl, lp |-> lp.lp, dl |-> dl.dl,
         out |-> Undenormalise(MulQ(sampDry, r.dry) + samp),
         handed |-> {<<"mAllpass", c, apLen>>, <<"mDelay", c, dlLen>>}]

\* an iteration of the loop of processStereoBlock after its call of
\* processCombs, which returned cb
StereoTail(r, cb, sampDryL, sampDryR, junk) ==
    LET L  == StereoChannel(cb.r, cb.r.mLowpass, 0, cb.out, sampDryL, junk)
        R  == StereoChannel(cb.r, L.lp, 1, cb.out, sampDryR, junk)
    IN  [r    |-> [cb.r EXCEPT !.mAllpass = [c \in CHANS |-> IF c = 0 THEN L.ap ELSE R.ap],
                                !.mLowpass = R.lp,
                                !.mDelay = [c \in CHANS |-> IF c = 0 THEN L.dl ELSE R.dl]],
         outL |-> L.out, outR |-> R.out,
         handed |-> cb.handed \cup L.handed \cup R.handed]

\* one iteration of the loop of processStereoBlock
StereoSample(r, sampDryL, sampDryR, junk) ==
    Only({StereoTail(r, cb, sampDryL, sampDryR, junk) :
              cb \in {processCombs(r, MulQ(TDiv(sampDryL + sampDryR, 2), r.wet), junk)}})

\* the iteration on one frame, after the iterations that gave acc
StereoStep(acc, sampDryL, sampDryR, junk) ==
    Only({[r |-> s.r, out1 |-> Append(acc.out1, s.outL),
           out2 |-> Append(acc.out2, s.outR),
           handed |-> acc.handed \cup s.handed] :
              s \in {StereoSample(acc.r, sampDryL, sampDryR, junk)}})

RECURSIVE StereoFrom(_, _, _, _)
StereoFrom(acc, channelData1, channelData2, junk) ==
    IF channelData1 = <<>> THEN acc
    ELSE Only({StereoFrom(a, Tail(channelData1), Tail(channelData2), junk) :
                   a \in {StereoStep(acc, Head(channelData1), Head(channelData2), junk)}})

\* processStereoBlock (channelData1, channelData2, blockSize)
processStereoBlock(r, channelData1, channelData2, junk) ==
    StereoFrom([r |-> r, out1 |-> <<>>, out2 |-> <<>>, handed |-> {}],
               channelData1, channelData2, junk)

(***************************************************************************)
(* AudealizeAudioProcessor: the parameter state and its memory block.      *)
(* A ValueTree is a record of its type name, its properties in order       *)
(* (pairs <<name, value>>) and its children; the invalid tree has no type. *)
(* A memory block is the sequence of items ValueTree::writeToStream        *)
(* writes: strings and counts.  An item is a record with a string part s   *)
(* and a number part n; reading past the end of a block yields the empty   *)
(* string and zero, as a MemoryInputStream does.                           *)
(***************************************************************************)
Tree(type, props, children) == [type |-> type, props |-> props, children |-> children]

InvalidTree == Tree("", <<>>, <<>>)

isValid(t) == t.type # ""

\* the value of a property read where no value was written
Void == "void"

StrItem(x) == [s |-> x, n |-> 0]

IntItem(k) == [s |-> "", n |-> k]

\* a value: the count of its bytes (0 for void), then the bytes
VarItem(v) == IF v = Void THEN IntItem(0) ELSE [s |-> v, n |-> 1]

ItemAt(data, p) == IF p \in DOMAIN data THEN data[p] ELSE IntItem(0)

RECURSIVE WriteProps(_)
WriteProps(props) ==
    IF props = <<>> THEN <<>>
    ELSE <<StrItem(Head(props)[1]), VarItem(Head(props)[2])>> \o WriteProps(Tail(props))

\* ValueTree::writeToStream: type, property count, properties, child
\* count, children; an invalid tree is written as "", 0, 0
RECURSIVE writeToStream(_)
RECURSIVE WriteChildren(_)
WriteChildren(children) ==
    IF children = <<>> THEN <<>>
    ELSE writeToStream(Head(children)) \o WriteChildren(Tail(children))

writeToStream(t) ==
    <<StrItem(t.type), IntItem(Len(t.props))>> \o WriteProps(t.props)
        \o <<IntItem(Len(t.children))>> \o WriteChildren(t.children)

\* NamedValueSet::set: replace the value of a name already there, else append
setProperty(props, name, v) ==
    IF \E k \in DOMAIN props : props[k][1] = name
    THEN [k \in DOMAIN props |-> IF props[k][1] = name THEN <<name, v>> ELSE props[k]]
    ELSE Append(props, <<name, v>>)

\* n properties read from position p on: a name, then its value; an
\* empty name is skipped without reading a value
RECURSIVE ReadProps(_, _, _, _)
ReadProps(data, p, n, props) ==
    IF n <= 0 THEN [props |-> props, next |-> p]
    ELSE LET name == ItemAt(data, p).s
         IN  IF name # ""
             THEN LET item == ItemAt(data, p + 1)
                      v    == IF item.n > 0 THEN item.s ELSE Void
                  IN  ReadProps(data, p + 2, n - 1, setProperty(props, name, v))
             ELSE ReadProps(data, p + 1, n - 1, props)

\* ValueTree::readFromStream at position p: no type gives the invalid
\* tree; reading the children stops at the first invalid child
RECURSIVE ReadTree(_, _)
RECURSIVE ReadChildren(_, _, _, _)
ReadChildren(data, p, n, children) ==
    IF n <= 0 THEN [children |-> children, next |-> p]
    ELSE LET c == ReadTree(data, p)
         IN  IF isValid(c.tree)
             THEN ReadChildren(data, c.next, n - 1, Append(children, c.tree))
             ELSE [children |-> children, next |-> c.next]

ReadTree(data, p) ==
    LET type == ItemAt(data, p).s
    IN  IF type = "" THEN [tree |-> InvalidTree, next |-> p + 1]
        ELSE LET ps == ReadProps(data, p + 2, ItemAt(data, p + 1).n, <<>>)
                 cs == ReadChildren(data, ps.next + 1, ItemAt(data, ps.next).n, <<>>)
             IN  [tree |-> Tree(type, ps.props, cs.children), next |-> cs.next]

\* ValueTree::readFromData (data, sizeInBytes)
readFromData(data) == ReadTree(data, 1).tree

\* the processor after construction; state is mState->state.  The other
\* fields record the calls: destData is the block the last
\* getStateInformation filled and saved the state it wrote (got: there was
\* such a call); op is the last call, pre the call before it, data the
\* block given to it and before the state on its entry.
NewProcessor ==
    [state |-> InvalidTree, destData |-> <<>>, saved |-> InvalidTree, got |-> FALSE,
     op |-> "AudealizeAudioProcessor", pre |-> "", data |-> <<>>, before |-> InvalidTree]

\* getStateInformation (destData)
getStateInformation(p) == [p EXCEPT !.destData = writeToStream(p.state)]

\* setStateInformation with the check of the tree left out
setStateInformation_unchecked(p, data) == [p EXCEPT !.state = readFromData(data)]

\* setStateInformation (data, sizeInBytes)
setStateInformation(p, data) ==
    LET tree == readFromData(data)
    IN  IF isValid(tree) THEN [p EXCEPT !.state = tree] ELSE p

(***************************************************************************)
(* The engine as a state machine: one action per public method of Reverb.  *)
(***************************************************************************)
VARIABLES
    reverb,     \* the Reverb object
    inited,     \* init () has been called
    last,       \* the last call: its name, its buffers on entry (in1, in2)
                \* and on return (out1, out2), the delay lengths it handed
                \* out and, for a processing call, the call before it (pre)
    nSamples,   \* samples processed so far
    nCalls,     \* calls made so far
    silent,     \* every processing call so far was processMonoBlock on an
                \* all-zero buffer
    audio,      \* the audio thread inside processMonoBlock: the samples
                \* still to process, those written back, and the derived
                \* comb state each processed sample was computed from
    ui,         \* the thread inside set_d: its position and argument
    proc        \* the AudealizeAudioProcessor: its parameter state, the
                \* block last written and the last call

vars == <<reverb, inited, last, nSamples, nCalls, silent, audio, ui, proc>>

\* the values the calls are made with
DVals == {25, 50}

GVals == {500, 700}

MVals == {2, 5}

FVals == {40, 60}

EVals == {500, 950}

WVals == {750, 1000}

SRVals == {150, 200, 200000}

SampleVals == {0, 1000}

\* the arguments of init (): two settings at any rate, or the first alone
InitArgs ==
    {<<50, 500, 5, 40, 950, 750, sr>> : sr \in SRVals}
        \cup {<<25, 700, 2, 60, 500, 1000, sr>> : sr \in SRVals}

PresetArgs == {a \in InitArgs : a[1] = 50}

\* what a read beyond the capacity may yield; no such read is made when
\* every length is within the capacity
OverCapacity(r) ==
    \/ \E i \in COMBS : CombLen(r, i) > Capacity
    \/ \E c \in CHANS : SpreadLen(r, c) > Capacity
    \/ MinLen(r) > Capacity

JunkVals(r) == IF OverCapacity(r) THEN SampleVals ELSE {0}

\* longest block, samples processed and calls made in one behaviour
MaxBlock == 2

MaxSamples == 3

MaxCalls == 4

Blocks == UNION {[1 .. n -> SampleVals] : n \in 1 .. MaxBlock}

IsZeroBlock(b) == \A k \in DOMAIN b : b[k] = 0

NoCall == [op |-> "Reverb", in1 |-> <<>>, in2 |-> <<>>, out1 |-> <<>>, out2 |-> <<>>,
           handed |-> {}, pre |-> ""]

Call(name) == [NoCall EXCEPT !.op = name]

AudioIdle == [pc |-> "idle", in |-> <<>>, out |-> <<>>, used |-> <<>>]

UiIdle == [pc |-> "idle", i |-> 0]

Init ==
    /\ reverb \in {Reverb(gv) : gv \in GVals}
    /\ inited = FALSE
    /\ last = NoCall
    /\ nSamples = 0
    /\ nCalls = 0
    /\ silent = TRUE
    /\ audio = AudioIdle
    /\ ui = UiIdle
    /\ proc = NewProcessor

DoInit(args) ==
    \E a \in args :
        /\ reverb' = init(reverb, a[1], a[2], a[3], a[4], a[5], a[6], a[7])
        /\ inited' = TRUE
        /\ last' = Call("init")
        /\ UNCHANGED <<nSamples, silent>>

DoSetSampleRate ==
    /\ inited
    /\ \E sr \in SRVals : reverb' = setSampleRate(reverb, sr)
    /\ last' = Call("setSampleRate")
    /\ UNCHANGED <<inited, nSamples, silent>>

DoResetBuffs ==
    /\ inited
    /\ reverb' = resetBuffs(reverb)
    /\ last' = Call("resetBuffs")
    /\ UNCHANGED <<inited, nSamples, silent>>

DoSetD ==
    /\ inited
    /\ \E v \in DVals : reverb' = set_d(reverb, v)
    /\ last' = Call("set_d")
    /\ UNCHANGED <<inited, nSamples, silent>>

DoSetG ==
    /\ inited
    /\ \E v \in GVals : reverb' = set_g(reverb, v)
    /\ last' = Call("set_g")
    /\ UNCHANGED <<inited, nSamples, silent>>

DoSetM ==
    /\ inited
    /\ \E v \in MVals : reverb' = set_m(reverb, v)
    /\ last' = Call("set_m")
    /\ UNCHANGED <<inited, nSamples, silent>>

DoSetF ==
    /\ inited
    /\ \E v \in FVals : reverb' = set_f(reverb, v)
    /\ last' = Call("set_f")
    /\ UNCHANGED <<inited, nSamples, silent>>

DoSetE ==
    /\ inited
    /\ \E v \in EVals : reverb' = set_E(reverb, v)
    /\ last' = Call("set_E")
    /\ UNCHANGED <<inited, nSamples, silent>>

DoSetWetDry ==
    /\ inited
    /\ \E v \in WVals : reverb' = set_wetdry(reverb, v)
    /\ last' = Call("set_wetdry")
    /\ UNCHANGED <<inited, nSamples, silent>>

DoProcessMonoBlock ==
    /\ inited
    /\ \E b \in Blocks, junk \in JunkVals(reverb) :
        /\ nSamples + Len(b) <= MaxSamples
        /\ LET res == processMonoBlock(reverb, b, junk)
           IN  /\ reverb' = res.r
               /\ last' = [op |-> "processMonoBlock", in1 |-> b, in2 |-> <<>>,
                           out1 |-> res.out, out2 |-> <<>>, handed |-> res.handed,
                           pre |-> last.op]
        /\ nSamples' = nSamples + Len(b)
        /\ silent' = (silent /\ IsZeroBlock(b))
    /\ UNCHANGED inited

DoProcessStereoBlock ==
    /\ inited
    /\ \E b1 \in Blocks, b2 \in Blocks, junk \in JunkVals(reverb) :
        /\ Len(b1) = Len(b2)
        /\ nSamples + Len(b1) <= MaxSamples
        /\ LET res == processStereoBlock(reverb, b1, b2, junk)
           IN  /\ reverb' = res.r
               /\ last' = [op |-> "processStereoBlock", in1 |-> b1, in2 |-> b2,
                           out1 |-> res.out1, out2 |-> res.out2, handed |-> res.handed,
                           pre |-> last.op]
        /\ nSamples' = nSamples + Len(b1)
        /\ silent' = FALSE
    /\ UNCHANGED inited

\* a call counted against MaxCalls, and a call not counted
Counted(A) ==
    nCalls < MaxCalls /\ nCalls' = nCalls + 1 /\ A /\ UNCHANGED <<audio, ui, proc>>

Free(A) == A /\ UNCHANGED <<nCalls, audio, ui, proc>>

\* the whole engine: at most MaxCalls calls, init () with the first setting
Next ==
    \/ Counted(DoInit(PresetArgs))
    \/ Counted(DoSetSampleRate)
    \/ Counted(DoResetBuffs)
    \/ Counted(DoSetD)
    \/ Counted(DoSetG)
    \/ Counted(DoSetM)
    \/ Counted(DoSetF)
    \/ Counted(DoSetE)
    \/ Counted(DoSetWetDry)
    \/ Counted(DoProcessMonoBlock)
    \/ Counted(DoProcessStereoBlock)

Spec == Init /\ [][Next]_vars

\* the parameter mapping alone: any number of calls of init () and of the
\* setters
NextParams ==
    \/ Free(DoInit(InitArgs))
    \/ Free(DoSetSampleRate)
    \/ Free(DoResetBuffs)
    \/ Free(DoSetD)
    \/ Free(DoSetG)
    \/ Free(DoSetM)
    \/ Free(DoSetF)
    \/ Free(DoSetE)
    \/ Free(DoSetWetDry)

SpecParams == Init /\ [][NextParams]_vars

(***************************************************************************)
(* set_d on one thread while processMonoBlock runs on another.  Reverb     *)
(* holds no lock and no atomic: the statements of set_d and the iterations *)
(* of the loop of processMonoBlock interleave freely.  Each statement of   *)
(* set_d and each iteration of the loop is one step (the iterations read   *)
(* the members at a finer grain still).                                    *)
(***************************************************************************)
\* calls of set_d made while audio runs
MaxSetD == 2

\* rt and the comb values, as one iteration of processMonoBlock reads them
CombState(r) == [rt |-> r.rt, mCombDelay |-> r.mCombDelay, mCombGain |-> r.mCombGain]

\* the host's init () before audio starts
RaceInit ==
    /\ ~inited
    /\ DoInit(PresetArgs)
    /\ UNCHANGED <<nCalls, audio, ui, proc>>

\* processMonoBlock is entered with a block
AudioEnter ==
    /\ inited
    /\ audio.pc = "idle"
    /\ \E b \in Blocks :
        /\ nSamples + Len(b) <= MaxSamples
        /\ audio' = [pc |-> "loop", in |-> b, out |-> <<>>, used |-> <<>>]
        /\ nSamples' = nSamples + Len(b)
    /\ UNCHANGED <<reverb, inited, last, nCalls, silent, ui, proc>>

\* one iteration of its loop
AudioSample ==
    /\ audio.pc = "loop"
    /\ audio.in # <<>>
    /\ \E junk \in JunkVals(reverb) :
        LET s == MonoSample(reverb, Head(audio.in), junk)
        IN  /\ reverb' = [s.r EXCEPT !.d = reverb.d]
            /\ audio' = [audio EXCEPT !.in = Tail(audio.in),
                                      !.out = Append(audio.out, s.out),
                                      !.used = Append(audio.used, CombState(reverb))]
    /\ UNCHANGED <<inited, last, nSamples, nCalls, silent, ui, proc>>

\* the loop ends and processMonoBlock returns
AudioReturn ==
    /\ audio.pc = "loop"
    /\ audio.in = <<>>
    /\ audio' = [audio EXCEPT !.pc = "idle"]
    /\ UNCHANGED <<reverb, inited, last, nSamples, nCalls, silent, ui, proc>>

\* set_d (d_val) is entered: d = d_val
UiEnter ==
    /\ inited
    /\ ui.pc = "idle"
    /\ nCalls < MaxSetD
    /\ \E v \in DVals : reverb' = [reverb EXCEPT !.d = v]
    /\ ui' = [pc |-> "calc_rt", i |-> 0]
    /\ nCalls' = nCalls + 1
    /\ UNCHANGED <<inited, last, nSamples, silent, audio, proc>>

\* calc_rt ()
UiCalcRt ==
    /\ ui.pc = "calc_rt"
    /\ reverb' = calc_rt(reverb)
    /\ ui' = [pc |-> "delay", i |-> 0]
    /\ UNCHANGED <<inited, last, nSamples, nCalls, silent, audio, proc>>

\* mCombDelay[i] = ...
UiCombDelay ==
    /\ ui.pc = "delay"
    /\ reverb' = set_d_delay(reverb, ui.i)
    /\ ui' = [ui EXCEPT !.pc = "gain"]
    /\ UNCHANGED <<inited, last, nSamples, nCalls, silent, audio, proc>>

\* mCombGain[i] = ...; i++; the call returns after comb 5
UiCombGain ==
    /\ ui.pc = "gain"
    /\ reverb' = set_d_gain(reverb, ui.i)
    /\ ui' = IF ui.i = 5 THEN UiIdle ELSE [pc |-> "delay", i |-> ui.i + 1]
    /\ UNCHANGED <<inited, last, nSamples, nCalls, silent, audio, proc>>

NextRace ==
    \/ RaceInit
    \/ AudioEnter
    \/ AudioSample
    \/ AudioReturn
    \/ UiEnter
    \/ UiCalcRt
    \/ UiCombDelay
    \/ UiCombGain

SpecRace == Init /\ [][NextRace]_vars

\* C3: no sample of a block is computed from a mixture of old and new
\* derived state: the rt, comb delays and comb gains an iteration reads are
\* those of one value of d, and every iteration of a block reads the same
\* ones (an update is seen only at a block boundary).
C3_NoPartialUpdate ==
    \A k \in DOMAIN audio.used :
        /\ \E dv \in DVals : audio.used[k] = CombState(set_d(reverb, dv))
        /\ audio.used[k] = audio.used[1]

(***************************************************************************)
(* Properties of the parameter mapping.                                    *)
(***************************************************************************)
\* every derived value of r follows from r's parameters and sample rate
DerivedConsistent(r) ==
    /\ r.rt = TDiv(r.d * LOG001, LogQ(r.g))
    /\ \A i \in COMBS :
        /\ r.mCombDelay[i] = <<CombPrime(r.d, i, r.mSampleRate), r.mSampleRate>>
        /\ r.mCombGain[i] = CombGainOf(r.mCombDelay[i], r.rt)
    /\ r.mDelayVal[0] = <<SpreadPrime(r.da, r.m, 1, r.mSampleRate), r.mSampleRate>>
    /\ r.mDelayVal[1] = <<SpreadPrime(r.da, r.m, -1, r.mSampleRate), r.mSampleRate>>
    /\ [gainclean |-> r.gainclean, gain |-> r.gain, gainscale |-> r.gainscale]
           = GainsOf(r.E)
    /\ r.wet = WetOf(r.wetdry)
    /\ r.dry = DryOf(r.wetdry)

\* C1: after init () and after any later sequence of set_d, set_g, set_m,
\* set_f, set_E, set_wetdry and setSampleRate calls, when the last call has
\* returned, rt, the six comb delays and gains, the two spread delays,
\* gain, gainclean, gainscale, wet and dry are those computed from the
\* current d, g, m, E, wetdry and sample rate; none is left over from an
\* older value.
C1_DerivedStateConsistent == inited => DerivedConsistent(reverb)

\* a rate change after d and g were set one by one, all derived values current
C1_Witness ==
    /\ last.op = "setSampleRate"
    /\ reverb.mSampleRate = 200000
    /\ reverb.d = 25
    /\ reverb.g = 500
    /\ reverb.mCombDelay[0][2] = 200000
    /\ DerivedConsistent(reverb)

\* the lengths the claims speak of, recomputed from the parameters:
\* d * (15 - i) / 15 * sampleRate and (da +- m / 2) * sampleRate as integers
CombTarget(r, i) == TDiv(r.d * (15 - i) * r.mSampleRate, 15 * 1000)

SpreadTarget(r, sign) == TDiv((2 * r.da + sign * r.m) * r.mSampleRate, 2 * 1000)

PrimeBetween(lo, hi) == \E q \in (lo + 1) .. hi : isPrime(q)

SameExcept(r1, r2, fields) == \A k \in (DOMAIN r1) \ fields : r1[k] = r2[k]

\* C7 (one step): the step of each setter changes no field but its own
C7_Step ==
    /\ last'.op = "set_d" =>
          SameExcept(reverb, reverb', {"d", "rt", "mCombDelay", "mCombGain"})
    /\ last'.op = "set_g" =>
          SameExcept(reverb, reverb', {"g", "rt", "mCombDelay", "mCombGain"})
    /\ last'.op = "set_m" => SameExcept(reverb, reverb', {"m", "mDelayVal"})
    /\ last'.op = "set_f" =>
          /\ SameExcept(reverb, reverb', {"f", "mLowpass"})
          /\ reverb'.mLowpass = [reverb.mLowpass EXCEPT !.freq = reverb'.f]
    /\ last'.op = "set_E" =>
          SameExcept(reverb, reverb', {"E", "gain", "gainclean", "gainscale"})
    /\ last'.op = "set_wetdry" => SameExcept(reverb, reverb', {"wetdry", "wet", "dry"})

\* C7: each setter changes only the state its parameter affects: set_d and
\* set_g only d or g, rt and the six comb delays and gains (set_g leaves d
\* as it was); set_m only m and the two spread delays; set_f only f and the
\* damping cutoff; set_E only E, gain, gainclean, gainscale; set_wetdry only
\* wetdry, wet, dry.  No setter changes a delay line's contents or cursor,
\* nor the filter history.
C7_SetterFrame == [][C7_Step]_vars

\* set_f has changed the cutoff of an engine whose delay lines and filter
\* hold samples
C7_Witness ==
    /\ last.op = "set_f"
    /\ reverb.f = 60
    /\ reverb.mComb[0].data # <<>>
    /\ \E c \in CHANS : reverb.mLowpass.hist[c] # 0

\* C8 as stated: for every m > 0 the two spread delay lengths in samples
\* differ.
C8_SpreadLengthsDiffer ==
    (inited /\ reverb.m > 0) => SpreadLen(reverb, 0) # SpreadLen(reverb, 1)

\* C8 as amended: after set_m (m) the two spread delay lengths are primes,
\* channel 0's not below channel 1's, and they differ exactly when a prime
\* lies above (da - m/2) * sampleRate and not above (da + m/2) * sampleRate.
C8_SpreadLengthsDifferIffPrimeBetween ==
    inited =>
        LET l0 == SpreadLen(reverb, 0)
            l1 == SpreadLen(reverb, 1)
        IN  /\ isPrime(l0) /\ isPrime(l1)
            /\ l1 <= l0
            /\ l0 <= SpreadTarget(reverb, 1)
            /\ (l0 # l1) <=> PrimeBetween(SpreadTarget(reverb, -1), SpreadTarget(reverb, 1))

\* set_m (5 ms) at 200 Hz: the lengths are 3 and 2
C8_Witness ==
    /\ last.op = "set_m"
    /\ reverb.m = 5
    /\ reverb.mSampleRate = 200
    /\ SpreadLen(reverb, 0) = 3
    /\ SpreadLen(reverb, 1) = 2

\* C9 as stated: the six comb lengths are pairwise distinct primes,
\* non-increasing in i.
C9_CombLengthsDistinct ==
    inited =>
        /\ \A i \in COMBS : isPrime(CombLen(reverb, i))
        /\ \A i, j \in COMBS : i < j => CombLen(reverb, i) > CombLen(reverb, j)

\* C9 as amended: after set_d / set_g the six comb lengths are primes,
\* non-increasing in i, none above its target d * (15 - i) / 15 * sampleRate;
\* two neighbouring combs share a length exactly when no prime lies between
\* their targets.
C9_CombLengthsPrimeNonIncreasing ==
    inited =>
        /\ \A i \in COMBS : isPrime(CombLen(reverb, i))
                             /\ CombLen(reverb, i) <= CombTarget(reverb, i)
        /\ \A i \in COMBS \ {5} :
            /\ CombLen(reverb, i) >= CombLen(reverb, i + 1)
            /\ (CombLen(reverb, i) # CombLen(reverb, i + 1))
                   <=> PrimeBetween(CombTarget(reverb, i + 1), CombTarget(reverb, i))

\* set_d (50 ms) at 200 Hz: lengths 7, 7, 7, 7, 7, 5
C9_Witness ==
    /\ last.op = "set_d"
    /\ reverb.d = 50
    /\ reverb.mSampleRate = 200
    /\ CombLen(reverb, 0) = 7
    /\ CombLen(reverb, 4) = 7
    /\ CombLen(reverb, 5) = 5

(***************************************************************************)
(* Properties of the delay lines and of block processing.                  *)
(***************************************************************************)
AllZeroed(r) ==
    /\ \A i \in COMBS : IsZeroed(r.mComb[i])
    /\ \A c \in CHANS : IsZeroed(r.mAllpass[c]) /\ IsZeroed(r.mDelay[c])

NoSampleHeld(r) ==
    /\ \A i \in COMBS : r.mComb[i].data = <<>>
    /\ \A c \in CHANS : r.mAllpass[c].data = <<>> /\ r.mDelay[c].data = <<>>

\* C2: when setSampleRate, init or resetBuffs returns, every cell of each of
\* the engine's delay lines (6 combs, 2 allpasses, 2 plain delays) is zero
\* and each write cursor is rewound, whatever was processed before.
C2_ResetZeroesDelayLines ==
    last.op \in {"setSampleRate", "init", "resetBuffs"} => AllZeroed(reverb)

\* C4: every delay length handed to a delay line during processMonoBlock or
\* processStereoBlock is at most the capacity of 9600 samples.
C4_LengthsWithinCapacity == \A h \in last.handed : h[3] <= Capacity

\* C5: on a constructed and initialised engine, with any setter calls made
\* between the blocks, every processMonoBlock call on an all-zero buffer,
\* all earlier blocks having been all-zero too, writes an all-zero buffer
\* and leaves every delay line holding only zeros.
C5_SilenceInSilenceOut ==
    (last.op = "processMonoBlock" /\ silent) =>
        IsZeroBlock(last.out1) /\ NoSampleHeld(reverb)

\* a newly constructed engine given r's parameters
Fresh(r) ==
    [r EXCEPT !.mComb = [i \in COMBS |-> NewDelay],
              !.mAllpass = [c \in CHANS |-> NewDelay],
              !.mDelay = [c \in CHANS |-> NewDelay],
              !.mLowpass = NewFilter(r.f, r.mSampleRate)]

\* C6: after any history of blocks, resetBuffs followed by processMonoBlock
\* on a zero block writes what a newly constructed engine with the same
\* parameters writes for that block.
C6_ResetThenZeroBlockAsFresh ==
    (last.op = "processMonoBlock" /\ last.pre = "resetBuffs" /\ IsZeroBlock(last.in1)) =>
        \E junk \in JunkVals(reverb) :
            last.out1 = processMonoBlock(Fresh(reverb), last.in1, junk).out

\* the lengths handed to delay line `name`[c] during the last call
HandedTo(name, c) == {h[3] : h \in {x \in last.handed : x[1] = name /\ x[2] = c}}

\* C10 as stated: in processStereoBlock the allpass and the dry-path delay
\* line of channel c are both read with channel c's spread delay length.
C10_BothReadWithSpreadLength ==
    (last.op = "processStereoBlock") =>
        \A c \in CHANS :
            /\ HandedTo("mAllpass", c) = {SpreadLen(reverb, c)}
            /\ HandedTo("mDelay", c) = {SpreadLen(reverb, c)}

\* C10 (one step) as amended
C10_Step ==
    (last'.op = "processStereoBlock") =>
        \A c \in CHANS :
            /\ reverb'.mAllpass[c].pos = (reverb.mAllpass[c].pos + Len(last'.in1)) % Capacity
            /\ reverb'.mDelay[c].pos = (reverb.mDelay[c].pos + Len(last'.in1)) % Capacity
            /\ {h[3] : h \in {x \in last'.handed : x[1] = "mAllpass" /\ x[2] = c}}
                   = {SpreadLen(reverb, c)}
            /\ {h[3] : h \in {x \in last'.handed : x[1] = "mDelay" /\ x[2] = c}}
                   = {MinLen(reverb)}

\* C10 as amended: in processStereoBlock, for each channel c, the allpass
\* and the dry-path delay line of channel c are each applied once per frame
\* for that channel; the allpass of channel c is read with channel c's own
\* spread delay length mDelayVal[c] * sampleRate, the dry-path delay line of
\* either channel with the fixed length MINDELAY * sampleRate.
C10_AllpassSpreadDryPathMinDelay == [][C10_Step]_vars

\* a stereo block processed with spread lengths 3 and 2 and dry-path length 2
C10_Witness ==
    /\ last.op = "processStereoBlock"
    /\ Len(last.in1) = 2
    /\ HandedTo("mAllpass", 0) = {3}
    /\ HandedTo("mAllpass", 1) = {2}
    /\ HandedTo("mDelay", 0) = {2}
    /\ reverb.mAllpass[1].pos = 2

(***************************************************************************)
(* The per-sample signal path of processMonoBlock, written out from its    *)
(* description: six combs side by side, allpass 0, damping channel 0, the  *)
(* dry path through plain delay 0, and the blend.                          *)
(***************************************************************************)
\* one sample x through an engine r; junk is what a read beyond the
\* capacity yielded
PathMono(r, x, junk) ==
    LET wetIn  == MulQ(x, r.wet)
        comb   == [i \in COMBS |->
                      process_comb(r.mComb[i], wetIn, CombLen(r, i), r.mCombGain[i], junk)]
        sum    == comb[0].out + comb[1].out + comb[2].out
                      + comb[3].out + comb[4].out + comb[5].out
        ap     == process_allpass_comb(r.mAllpass[0], sum, SpreadLen(r, 0),
                                       ALLPASSGAIN, junk)
        lp     == processSample(r.mLowpass, ap.out, 0)
        rev    == MulQ(lp.out, r.gain)
        dl     == process(r.mDelay[0], x, MinLen(r), junk)
        clean  == MulQ(MulQ(dl.out, r.wet), r.gainclean)
    IN  [r   |-> [r EXCEPT !.mComb = [i \in COMBS |-> comb[i].dl],
                           !.mAllpass[0] = ap.dl,
                           !.mLowpass = lp.lp,
                           !.mDelay[0] = dl.dl],
         out |-> MulQ(TDiv(clean + rev, 2), r.gainscale) + MulQ(x, r.dry)]

\* the samples of block b through r in buffer order, from index k on
RECURSIVE PathMonoFrom(_, _, _, _)
PathMonoFrom(acc, b, k, junk) ==
    IF k > Len(b) THEN acc
    ELSE Only({PathMonoFrom([r |-> s.r, out |-> Append(acc.out, s.out)], b, k + 1, junk) :
                   s \in {PathMono(acc.r, b[k], junk)}})

PathMonoBlock(r, b, junk) == PathMonoFrom([r |-> r, out |-> <<>>], b, 1, junk)

\* C11 (one step)
C11_Step ==
    (last'.op = "processMonoBlock") =>
        \E junk \in JunkVals(reverb) :
            LET b    == last'.in1
                path == PathMonoBlock(reverb, b, junk)
            IN  /\ Len(last'.out1) = Len(b)
                /\ last'.out1 = path.out
                /\ reverb' = path.r
                /\ \A i \in COMBS :
                       reverb'.mComb[i].pos = (reverb.mComb[i].pos + Len(b)) % Capacity
                /\ reverb'.mAllpass[0].pos = (reverb.mAllpass[0].pos + Len(b)) % Capacity
                /\ reverb'.mDelay[0].pos = (reverb.mDelay[0].pos + Len(b)) % Capacity
                /\ {h[3] : h \in {x \in last'.handed : x[1] = "mDelay"}} = {MinLen(reverb)}
                /\ \A k \in 1 .. Len(b) :
                       processMonoBlock(reverb, SubSeq(b, 1, k), junk).out
                           = SubSeq(last'.out1, 1, k)

\* C11: for every sample x of a processMonoBlock call, in buffer order, the
\* six combs are each fed x * wet once and their outputs summed; the sum
\* goes through allpass 0, damping channel 0 and is scaled by gain; x is
\* written once into plain delay 0 and its MINDELAY-delayed value scaled by
\* wet * gainclean; the sample written is (clean + reverb) * 0.5 * gainscale
\* + x * dry.  blockSize samples are processed, each index written once, and
\* the output at index i is that of processing the block's first i samples
\* alone.
C11_MonoSamplePath == [][C11_Step]_vars

\* a two-sample block whose second output carries reverb from the first
C11_Witness ==
    /\ last.op = "processMonoBlock"
    /\ Len(last.in1) = 2
    /\ last.in1[1] # 0
    /\ reverb.mLowpass.hist[0] # 0
    /\ reverb.mComb[5].data # <<>>
    /\ last.out1[2] # 0

\* the state processMonoBlock and channel 0 of processStereoBlock share
Channel0(r) ==
    [mComb |-> r.mComb, mAllpass |-> r.mAllpass[0], mDelay |-> r.mDelay[0],
     hist |-> r.mLowpass.hist[0]]

\* mono is the engine left by processMonoBlock (x) on a second engine
\* that started in the state r
AgreesWithMono(out1, r2, mono) ==
    /\ out1 = mono.out
    /\ Channel0(r2) = Channel0(mono.r)

\* C12 (one step); the second engine's reads beyond the capacity yield
\* values of their own
C12_Step ==
    (last'.op = "processStereoBlock" /\ last'.in1 = last'.in2) =>
        \A junk \in JunkVals(reverb) :
            AgreesWithMono(last'.out1, reverb', processMonoBlock(reverb, last'.in1, junk))

\* C12: from two engines in the same state, for any block x, the left
\* output of processStereoBlock (x, x) equals the output of
\* processMonoBlock (x) sample for sample, and afterwards the six combs,
\* allpass 0, plain delay 0 and damping channel 0 of the two engines are in
\* the same state.
C12_MonoStereoAgree == [][C12_Step]_vars

\* the members of Reverb that hold samples
SampleFields == {"mComb", "mAllpass", "mDelay", "mLowpass"}

\* C13 (one step)
C13_Step ==
    (last'.op = "processMonoBlock") =>
        /\ reverb'.mAllpass[1] = reverb.mAllpass[1]
        /\ reverb'.mDelay[1] = reverb.mDelay[1]
        /\ reverb'.mLowpass.hist[1] = reverb.mLowpass.hist[1]
        /\ reverb'.mLowpass.freq = reverb.mLowpass.freq
        /\ reverb'.mLowpass.rate = reverb.mLowpass.rate
        /\ SameExcept(reverb, reverb', SampleFields)

\* C13: processMonoBlock leaves allpass delay line 1, plain delay line 1
\* and the history of damping channel 1 as they were, and changes no
\* parameter and no derived coefficient.
C13_MonoLeavesChannel1 == [][C13_Step]_vars

\* a mono block processed after a stereo block left samples in the lines
\* of channel 1
C13_Witness ==
    /\ last.op = "processMonoBlock"
    /\ last.pre = "processStereoBlock"
    /\ last.in1[1] # 0
    /\ last.out1[1] # 0
    /\ reverb.mAllpass[1].data # <<>>
    /\ reverb.mDelay[1].data # <<>>

(***************************************************************************)
(* The processor's state calls: the host saves the parameter state with    *)
(* getStateInformation and hands blocks to setStateInformation, among them *)
(* blocks cut short and the empty block.                                   *)
(***************************************************************************)
\* parameter states a host may have saved
SavedTrees ==
    {InvalidTree,
     Tree("Reverb", <<>>, <<>>),
     Tree("Reverb", <<<<"amount", "0.5">>>>,
          <<Tree("PARAM", <<<<"id", "d">>, <<"value", "0.05">>>>, <<>>)>>),
     Tree("Reverb", <<<<"amount", "0.7">>>>,
          <<Tree("PARAM", <<<<"id", "d">>>>, <<>>),
            Tree("PARAM", <<<<"id", "g">>, <<"value", "0.5">>>>, <<>>)>>)}

\* the blocks written for them, whole and cut short after any item
StateBlocks ==
    UNION {{SubSeq(writeToStream(t), 1, k) : k \in 0 .. Len(writeToStream(t))} :
               t \in SavedTrees}

DoGetStateInformation ==
    /\ proc' = [getStateInformation(proc) EXCEPT
                    !.saved = proc.state, !.got = TRUE,
                    !.op = "getStateInformation", !.pre = proc.op,
                    !.data = <<>>, !.before = proc.state]
    /\ UNCHANGED <<reverb, inited, last, nSamples, nCalls, silent, audio, ui>>

DoSetStateInformation ==
    /\ \E data \in StateBlocks \cup {proc.destData} :
        proc' = [setStateInformation(proc, data) EXCEPT
                     !.op = "setStateInformation", !.pre = proc.op,
                     !.data = data, !.before = proc.state]
    /\ UNCHANGED <<reverb, inited, last, nSamples, nCalls, silent, audio, ui>>

NextState ==
    \/ DoGetStateInformation
    \/ DoSetStateInformation

SpecState == Init /\ [][NextState]_vars

\* a block decodes to a valid tree when its first item is a type name
StartsWithType(data) == data # <<>> /\ data[1].s # ""

\* C14: setStateInformation replaces the parameter state, by the tree the
\* data decodes to, only when that tree is valid; when it is not, the state
\* is left as it was on entry (the call returns normally either way).
\* getStateInformation followed by setStateInformation of the block it
\* produced leaves the state that was saved; when the saved state was a
\* valid tree this holds as well after other calls in between.
C14_SetStateOnlyWhenValid ==
    (proc.op = "setStateInformation") =>
        /\ isValid(readFromData(proc.data)) <=> StartsWithType(proc.data)
        /\ IF StartsWithType(proc.data)
           THEN proc.state = readFromData(proc.data) /\ isValid(proc.state)
           ELSE proc.state = proc.before
        /\ (/\ proc.got
            /\ proc.data = proc.destData
            /\ (proc.pre = "getStateInformation" \/ isValid(proc.saved)))
               => proc.state = proc.saved

\* a saved state with children restored over a different state
C14_Witness ==
    /\ proc.op = "setStateInformation"
    /\ proc.got
    /\ proc.data = proc.destData
    /\ isValid(proc.saved)
    /\ Len(proc.saved.children) = 2
    /\ isValid(proc.before)
    /\ proc.before # proc.saved
    /\ proc.state = proc.saved

====
